---- MODULE Spec2Model ----
(***************************************************************************)
(* Waltrac firmware: the authenticated message codec (Messages.cpp), the   *)
(* command intake of the tracker (Waltrac.cpp, getCommand) and the LTE and *)
(* GNSS procedures of the tracker (Waltrac.cpp).                           *)
(*                                                                         *)
(* A buffer is a sequence of wire bytes.  A wire byte is a tuple: <<b>>    *)
(* is the plain byte b (0..255); <<key, data, i>> is the i-th byte of      *)
(* HMAC-SHA-256(key, data), kept symbolic so that the digest is            *)
(* collision-free and never equal to a plain byte string.                  *)
(***************************************************************************)
EXTENDS Integers, Sequences, FiniteSets, TLC

VARIABLES
    payload,        \* the sender's Payload object (a Position or a Command)
    sent,           \* the last serialize call on payload: key, fields, result
    wire,           \* the datagram in flight between sender and receiver
    faults,         \* number of transport faults applied to the datagram
    decoded,        \* the receiver: outcome of the last init (decode) call
    verified,       \* outcome of the last verify call on the decoded object
    getCommandRet,  \* return value of the last getCommand call
    pc,             \* the main task: the statement it executes next
    stack,          \* the main task: return addresses of the calls in progress
    ret,            \* the value the last function call returned
    loc,            \* local variables of the functions in progress
    gnss,           \* the globals gnssEventHandler shares with the main task
    fixPending,     \* the modem: a GNSS fix request is in progress
    obs             \* observations on the call in progress (history)

codecVars == <<payload, sent, wire, faults, decoded, verified, getCommandRet>>
fwVars == <<pc, stack, ret, loc, gnss, fixPending, obs>>
vars == <<payload, sent, wire, faults, decoded, verified, getCommandRet,
          pc, stack, ret, loc, gnss, fixPending, obs>>

(***************************************************************************)
(* Bounds of the model                                                     *)
(***************************************************************************)
\* latitude/longitude are kept in 1e-7 degree units plus frac/FracDen of a unit
FracDen == 10
\* transport faults (bit flip, truncation, padding) applied to one datagram
MaxFaults == 1
\* serialize calls made on one payload object
MaxSerialize == 2

\* bits the transport may flip in a byte
FlipBits == {0}
\* byte values found behind the end of a heap buffer
OobBytes == {0, 165}
\* keys: NoKey is the nullptr key
NoKey == "nullptr"
WT_CFG_SECRET == "topsecret"
Keys == {WT_CFG_SECRET, "wrongkey"}

(***************************************************************************)
(* Wire bytes                                                              *)
(***************************************************************************)
B(b) == <<b>>
Val(w) == w[1]
IsPlain(w) == Len(w) = 1
Plain(s) == [i \in 1..Len(s) |-> B(s[i])]

\* std::array<uint8_t, 16> hmac_{}
ZeroTag == [i \in 1..16 |-> B(0)]

--------------------------------------------------------------------------
(***************************************************************************)
(* helpers                                                                 *)
(***************************************************************************)
push_u8(out, v) == Append(out, B(v))

\* (v >> s) & 0xFF on a 32 bit two's complement integer
ByteOf(v, shift) == (v \div (2 ^ shift)) % 256

\* faulty variant of push_be_i32: least significant byte first
push_le_i32(out, v) ==
    out \o <<B(ByteOf(v, 0)), B(ByteOf(v, 8)), B(ByteOf(v, 16)), B(ByteOf(v, 24))>>

push_be_i32(out, v) ==
    out \o <<B(ByteOf(v, 24)), B(ByteOf(v, 16)), B(ByteOf(v, 8)), B(ByteOf(v, 0))>>

\* faulty variant of read_be_i32: the four bytes taken in little endian order
read_le_i32(src, offset) ==
    LET b0 == Val(src[offset + 4])
        b1 == Val(src[offset + 3])
        b2 == Val(src[offset + 2])
        b3 == Val(src[offset + 1])
        hi == IF b0 >= 128 THEN b0 - 256 ELSE b0
    IN  hi * 16777216 + b1 * 65536 + b2 * 256 + b3

\* offset is zero based, as in the source
read_be_i32(src, offset) ==
    LET b0 == Val(src[offset + 1])
        b1 == Val(src[offset + 2])
        b2 == Val(src[offset + 3])
        b3 == Val(src[offset + 4])
        hi == IF b0 >= 128 THEN b0 - 256 ELSE b0
    IN  hi * 16777216 + b1 * 65536 + b2 * 256 + b3

\* faulty variant of compute_hmac_sha256_trunc: datalen 1, only the header is signed
compute_hmac_header_only(key, data) ==
    [i \in 1..16 |-> <<key, SubSeq(data, 1, 1), i>>]

\* first 16 bytes of HMAC-SHA-256(key, data)
compute_hmac_sha256_trunc(key, data) == [i \in 1..16 |-> <<key, data, i>>]

\* round(degrees * SCALE): round half away from zero, result in 1e-7 units
RoundScaled(d) ==
    IF d.units >= 0
    THEN d.units + (IF 2 * d.frac >= FracDen THEN 1 ELSE 0)
    ELSE d.units + (IF 2 * d.frac > FracDen THEN 1 ELSE 0)

\* static_cast<double>(v) / SCALE
Unscaled(v) == [units |-> v, frac |-> 0]

Deg(u, f) == [units |-> u, frac |-> f]

--------------------------------------------------------------------------
(***************************************************************************)
(* Objects                                                                 *)
(***************************************************************************)
\* Position() = default: all fields zero, empty name, zero tag
PositionDefault ==
    [kind |-> "Position", header |-> 0, interval |-> 0, confidence |-> 0,
     satellites |-> 0, device |-> <<0, 0, 0, 0, 0, 0>>,
     latitude |-> Deg(0, 0), longitude |-> Deg(0, 0), name |-> <<>>,
     hmac_ |-> ZeroTag]

\* Command() = default
CommandDefault ==
    [kind |-> "Command", header |-> 0, arg |-> <<>>, hmac_ |-> ZeroTag]

NoObject == [kind |-> "none"]

Ok(v) == [status |-> "ok", value |-> v]
Thrown(what) == [status |-> "error", what |-> what]

(***************************************************************************)
(* Position                                                                *)
(***************************************************************************)
\* faulty variant of PositionMinFixed: a minimum of 27 bytes, too small
PositionMinFixed_Printed == 1 + 1 + 6 + 4 + 4 + 4 + 1 + 6

PositionMinFixed == 1 + 1 + 1 + 1 + 6 + 4 + 4 + 1 + 16

\* faulty variant of PositionInit: bytes after the tag are not refused
PositionInit_TrailingAccepted(data) ==
    IF Len(data) < PositionMinFixed
    THEN [status |-> "error", what |-> "data too short for Position",
          obj |-> NoObject, reads |-> {}]
    ELSE LET namelen == Val(data[19])
             offset == 19 + namelen
         IN  IF Len(data) < 19 + namelen + 16
             THEN [status |-> "error",
                   what |-> "data too short for name length and hmac",
                   obj |-> NoObject, reads |-> 0..18]
             ELSE [status |-> "ok", what |-> "",
                   obj |-> [kind |-> "Position",
                            header |-> Val(data[1]),
                            interval |-> Val(data[2]),
                            confidence |-> Val(data[3]),
                            satellites |-> Val(data[4]),
                            device |-> [i \in 1..6 |-> Val(data[4 + i])],
                            latitude |-> Unscaled(read_be_i32(data, 10)),
                            longitude |-> Unscaled(read_be_i32(data, 14)),
                            name |-> [i \in 1..namelen |-> data[19 + i]],
                            hmac_ |-> [i \in 1..16 |-> data[offset + i]]],
                   reads |-> 0..(offset + 15)]

\* Position::init: the outcome, the object and the zero based offsets read
PositionInit(data) ==
    IF Len(data) < PositionMinFixed
    THEN [status |-> "error", what |-> "data too short for Position",
          obj |-> NoObject, reads |-> {}]
    ELSE LET namelen == Val(data[19])
             offset == 19 + namelen
         IN  IF Len(data) < 19 + namelen + 16
             THEN [status |-> "error",
                   what |-> "data too short for name length and hmac",
                   obj |-> NoObject, reads |-> 0..18]
             ELSE IF offset + 16 # Len(data)
             THEN [status |-> "error",
                   what |-> "extra or missing bytes after parsing hmac",
                   obj |-> NoObject, reads |-> 0..(offset + 15)]
             ELSE [status |-> "ok", what |-> "",
                   obj |-> [kind |-> "Position",
                            header |-> Val(data[1]),
                            interval |-> Val(data[2]),
                            confidence |-> Val(data[3]),
                            satellites |-> Val(data[4]),
                            device |-> [i \in 1..6 |-> Val(data[4 + i])],
                            latitude |-> Unscaled(read_be_i32(data, 10)),
                            longitude |-> Unscaled(read_be_i32(data, 14)),
                            name |-> [i \in 1..namelen |-> data[19 + i]],
                            hmac_ |-> [i \in 1..16 |-> data[offset + i]]],
                   reads |-> 0..(offset + 15)]

\* faulty variant of PositionSerializeFields: the layout with a timestamp and without
\* confidence and satellites
PositionSerializeFields_Timestamp(p) ==
    LET head == <<B(p.header), B(p.interval)>>
        dev == Plain(p.device)
        lat == push_be_i32(head \o dev, RoundScaled(p.latitude))
        lon == push_be_i32(lat, RoundScaled(p.longitude))
        ts == push_be_i32(lon, 0)
    IN  IF Len(p.name) > 255
        THEN Thrown("name too long; max 255 bytes")
        ELSE Ok(push_u8(ts, Len(p.name)) \o p.name)

\* faulty variant of PositionSerializeFields: a name of 256 bytes passes the
\* length test and its length byte wraps
PositionSerializeFields_OffByOne(p) ==
    LET head == <<B(p.header), B(p.interval), B(p.confidence), B(p.satellites)>>
        dev == Plain(p.device)
        lat == push_be_i32(head \o dev, RoundScaled(p.latitude))
        lon == push_be_i32(lat, RoundScaled(p.longitude))
    IN  IF Len(p.name) > 256
        THEN Thrown("name too long; max 255 bytes")
        ELSE Ok(push_u8(lon, Len(p.name) % 256) \o p.name)

\* Position::_serialize_fields
PositionSerializeFields(p) ==
    LET head == <<B(p.header), B(p.interval), B(p.confidence), B(p.satellites)>>
        dev == Plain(p.device)
        lat == push_be_i32(head \o dev, RoundScaled(p.latitude))
        lon == push_be_i32(lat, RoundScaled(p.longitude))
    IN  IF Len(p.name) > 255
        THEN Thrown("name too long; max 255 bytes")
        ELSE Ok(push_u8(lon, Len(p.name)) \o p.name)

\* Position::setHeader
PositionSetHeader(p, isValid) ==
    [p EXCEPT !.header = 128 + (IF isValid THEN 1 ELSE 0)]

(***************************************************************************)
(* Command                                                                 *)
(***************************************************************************)
\* faulty variant of CommandMinFixed: the tag is not counted
CommandMinFixed_NoTag == 1 + 1

CommandMinFixed == 1 + 1 + 16

\* data[offset]; a read behind the end of the buffer yields the byte oob
At(data, offset, oob) == IF offset < Len(data) THEN data[offset + 1] ELSE oob

\* Command::init; both length checks only print, the parse goes on
CommandInit(data, oob) ==
    IF Len(data) < CommandMinFixed
    THEN [status |-> "error", what |-> "data too short for Command",
          obj |-> NoObject, reads |-> {}]
    ELSE LET arglen == Val(data[2])
             offset == 2 + arglen
         IN  [status |-> "ok", what |-> "",
              obj |-> [kind |-> "Command",
                       header |-> Val(data[1]),
                       arg |-> [i \in 1..arglen |-> At(data, 1 + i, oob)],
                       hmac_ |-> [i \in 1..16 |-> At(data, offset + i - 1, oob)]],
              reads |-> 0..(offset + 15)]

\* faulty variant of CommandSerializeFields: the header is written as setHeader
\* would have built it
CommandSerializeFields_Marker(c) ==
    IF Len(c.arg) > 255
    THEN Thrown("arg too long; max 255 bytes")
    ELSE Ok(push_u8(<<B(128 + (c.header % 16))>>, Len(c.arg)) \o c.arg)

\* Command::_serialize_fields
CommandSerializeFields(c) ==
    IF Len(c.arg) > 255
    THEN Thrown("arg too long; max 255 bytes")
    ELSE Ok(push_u8(<<B(c.header)>>, Len(c.arg)) \o c.arg)

\* Command::setHeader
CommandSetHeader(c, action) == [c EXCEPT !.header = 128 + (action % 16)]

\* Command::getHeader
CommandGetHeader(c) == c.header % 16

(***************************************************************************)
(* Payload                                                                 *)
(***************************************************************************)
\* virtual _serialize_fields
SerializeFields(o) ==
    IF o.kind = "Position" THEN PositionSerializeFields(o)
    ELSE CommandSerializeFields(o)

\* faulty variant of Serialize: without a key the stored tag is appended
\* where the sixteen zero bytes belong
Serialize_StoredTag(o, key) ==
    LET fields == SerializeFields(o)
    IN  IF fields.status = "error"
        THEN [status |-> "error", what |-> fields.what, bytes |-> <<>>, obj |-> o]
        ELSE IF key = NoKey
        THEN [status |-> "ok", what |-> "",
              bytes |-> fields.value \o o.hmac_, obj |-> o]
        ELSE LET sig == compute_hmac_sha256_trunc(key, fields.value)
             IN  [status |-> "ok", what |-> "",
                  bytes |-> fields.value \o sig,
                  obj |-> [o EXCEPT !.hmac_ = sig]]

\* faulty variant of Serialize: the computed tag is appended but never
\* copied into hmac_
Serialize_TagNotStored(o, key) ==
    LET fields == SerializeFields(o)
    IN  IF fields.status = "error"
        THEN [status |-> "error", what |-> fields.what, bytes |-> <<>>, obj |-> o]
        ELSE IF key = NoKey
        THEN [status |-> "ok", what |-> "",
              bytes |-> fields.value \o [i \in 1..16 |-> B(0)], obj |-> o]
        ELSE LET sig == compute_hmac_sha256_trunc(key, fields.value)
             IN  [status |-> "ok", what |-> "",
                  bytes |-> fields.value \o sig, obj |-> o]

\* faulty variant of Serialize: without a key the stored tag is reset to
\* sixteen zero bytes
Serialize_TagCleared(o, key) ==
    LET fields == SerializeFields(o)
    IN  IF fields.status = "error"
        THEN [status |-> "error", what |-> fields.what, bytes |-> <<>>, obj |-> o]
        ELSE IF key = NoKey
        THEN [status |-> "ok", what |-> "",
              bytes |-> fields.value \o [i \in 1..16 |-> B(0)],
              obj |-> [o EXCEPT !.hmac_ = [i \in 1..16 |-> B(0)]]]
        ELSE LET sig == compute_hmac_sha256_trunc(key, fields.value)
             IN  [status |-> "ok", what |-> "",
                  bytes |-> fields.value \o sig,
                  obj |-> [o EXCEPT !.hmac_ = sig]]

\* faulty variant of Serialize: the HMAC input is the field bytes followed
\* by the tag stored so far
Serialize_Chained(o, key) ==
    LET fields == SerializeFields(o)
    IN  IF fields.status = "error"
        THEN [status |-> "error", what |-> fields.what, bytes |-> <<>>, obj |-> o]
        ELSE IF key = NoKey
        THEN [status |-> "ok", what |-> "",
              bytes |-> fields.value \o [i \in 1..16 |-> B(0)], obj |-> o]
        ELSE LET sig == compute_hmac_sha256_trunc(key, fields.value \o o.hmac_)
             IN  [status |-> "ok", what |-> "",
                  bytes |-> fields.value \o sig,
                  obj |-> [o EXCEPT !.hmac_ = sig]]

\* Payload::serialize: the outcome, the bytes returned and the object after
Serialize(o, key) ==
    LET fields == SerializeFields(o)
    IN  IF fields.status = "error"
        THEN [status |-> "error", what |-> fields.what, bytes |-> <<>>, obj |-> o]
        ELSE IF key = NoKey
        THEN [status |-> "ok", what |-> "",
              bytes |-> fields.value \o [i \in 1..16 |-> B(0)], obj |-> o]
        ELSE LET sig == compute_hmac_sha256_trunc(key, fields.value)
             IN  [status |-> "ok", what |-> "",
                  bytes |-> fields.value \o sig,
                  obj |-> [o EXCEPT !.hmac_ = sig]]

\* faulty variant of Verify: a mismatch is reported by an exception
Verify_ThrowsOnMismatch(o, key) ==
    IF key = NoKey
    THEN Thrown("key is null")
    ELSE LET fields == SerializeFields(o)
         IN  IF fields.status = "error"
             THEN Thrown(fields.what)
             ELSE IF compute_hmac_sha256_trunc(key, fields.value) = o.hmac_
             THEN Ok(TRUE)
             ELSE Thrown("HMAC mismatch")

\* Payload::verify
Verify(o, key) ==
    IF key = NoKey
    THEN Thrown("key is null")
    ELSE LET fields == SerializeFields(o)
         IN  IF fields.status = "error"
             THEN Thrown(fields.what)
             ELSE Ok(compute_hmac_sha256_trunc(key, fields.value) = o.hmac_)

--------------------------------------------------------------------------
(***************************************************************************)
(* Inputs                                                                  *)
(***************************************************************************)
\* "dev1", 52.1326 N, 5.2913 E
PositionFix ==
    [kind |-> "Position", header |-> 129, interval |-> 30, confidence |-> 12,
     satellites |-> 7, device |-> <<1, 2, 3, 4, 5, 6>>,
     latitude |-> Deg(521326000, 0), longitude |-> Deg(52913000, 0),
     name |-> Plain(<<100, 101, 118, 49>>), hmac_ |-> ZeroTag]

\* the ends of the int32 range, a header without the format marker
PositionEdge ==
    [kind |-> "Position", header |-> 1, interval |-> 255, confidence |-> 200,
     satellites |-> 0, device |-> <<255, 0, 171, 205, 239, 128>>,
     latitude |-> Deg(-2147483647 - 1, 0), longitude |-> Deg(2147483647, 0),
     name |-> Plain(<<65>>), hmac_ |-> ZeroTag]

\* degrees that are no multiple of 1e-7
PositionFine ==
    [kind |-> "Position", header |-> 128, interval |-> 6, confidence |-> 3,
     satellites |-> 4, device |-> <<10, 20, 30, 40, 50, 60>>,
     latitude |-> Deg(-12346, 5), longitude |-> Deg(12345, 5),
     name |-> <<>>, hmac_ |-> ZeroTag]

PositionSamples == {PositionFix, PositionEdge, PositionFine}

\* header 0x81 (action 1), arg "60"
CommandInterval ==
    [kind |-> "Command", header |-> 129, arg |-> Plain(<<54, 48>>),
     hmac_ |-> ZeroTag]

\* a header without the format marker, a binary arg
CommandRaw ==
    [kind |-> "Command", header |-> 79, arg |-> Plain(<<0, 255, 1>>),
     hmac_ |-> ZeroTag]

CommandSamples == {CommandInterval, CommandRaw}

CommandActions == {1, 15}

SerializeKeys == {NoKey, WT_CFG_SECRET}

\* a name or an arg one byte longer than its length byte can express
LongField == [i \in 1..256 |-> B(65)]

\* flip bit `bit` of the byte b
Flip(b, bit) ==
    IF (b \div (2 ^ bit)) % 2 = 1 THEN b - 2 ^ bit ELSE b + 2 ^ bit

NoCall == [calls |-> 0, status |-> "none", what |-> "", key |-> NoKey,
           fields |-> <<>>, bytes |-> <<>>, before |-> NoObject,
           after |-> NoObject, tag |-> ZeroTag]

NotDecoded == [status |-> "none", what |-> "", obj |-> NoObject, reads |-> {},
               data |-> <<>>, oob |-> FALSE]

NotVerified == [status |-> "none", key |-> NoKey, result |-> FALSE]

(***************************************************************************)
(* The tracker's LTE and GNSS procedures: constants and initial state      *)
(***************************************************************************)
MAX_NETWORK_TIMEOUT_SECONDS == 30
MAX_GNSS_CONFIDENCE == 200
MAX_GNSS_FIX_ATTEMPTS == 3
MAX_GNSS_FIX_DURATION_SECONDS == 60
\* waitForInitialGnssFix restarts the ESP after this many seconds
INITIAL_FIX_RESTART_SECONDS == 300
\* validateGNSSClock queries the clock this often after the LTE connect
CLOCK_SYNC_QUERIES == 5
\* a satellite counts from this signal strength on
MIN_SIGNAL_STRENGTH == 30

\* top level calls the application makes in one run
MaxCalls == 2

\* WalterModemNetworkRegState, as far as the code tells the values apart
RegStates == {"NOT_SEARCHING", "SEARCHING", "REGISTERED_HOME", "REGISTERED_ROAMING"}

\* numAttempts arguments of attemptGnssFix
AttemptArgs == {0, 1, 4}

\* fixes the modem hands to gnssEventHandler: estimatedConfidence and the
\* signal strengths of the satellites
FixSamples ==
    {[estimatedConfidence |-> 200, sats |-> <<30, 45>>],
     [estimatedConfidence |-> 12, sats |-> <<29>>],
     [estimatedConfidence |-> 201, sats |-> <<31>>]}

\* WalterModemGNSSFix latestGnssFix = {}
NoFix == [estimatedConfidence |-> 0, sats |-> <<>>]

\* Waltrac.cpp:7-11
GnssInit ==
    [latestGnssFix |-> NoFix, gnssFixRcvd |-> FALSE,
     gnssFixNumSatellites |-> 0, gnssFixDurationSeconds |-> 0]

\* the locals of the functions, at the values they have outside a call
LocInit ==
    [timeout |-> 0, regState |-> "none", clockQueries |-> 0,
     updateAlmanac |-> FALSE, updateEphemeris |-> FALSE,
     numAttempts |-> 0, i |-> 0]

\* validateGNSSClock observed: UTC time queries made, the largest epochTime
\* reported, what isLteConnected answered, what became of lteConnect
ClockIdle ==
    [queries |-> 0, maxEpoch |-> 0, registered |-> "unknown",
     lteConnect |-> "none"]

\* updateGNSSAssistance observed: what the status query reported, what
\* isLteConnected answered, what became of lteConnect, downloads requested
AssistIdle ==
    [status |-> "none", registered |-> "unknown", lteConnect |-> "none",
     downloads |-> 0]

\* lteDisconnect observed: what it returned, the registration state it
\* read last
DisconnectIdle == [returned |-> "none", regState |-> "none"]

ObsInit ==
    [calls |-> 0, fn |-> "none", wfn |-> "idle", polls |-> 0, waits |-> 0,
     registered |-> FALSE, requests |-> 0, fixSinceRequest |-> FALSE,
     lastEvent |-> NoFix, numAttempts |-> 0, aborted |-> FALSE,
     clock |-> ClockIdle, assist |-> AssistIdle,
     disconnect |-> DisconnectIdle, fixWaits |-> 0]

FwInit ==
    /\ pc = "idle"
    /\ stack = <<>>
    /\ ret = FALSE
    /\ loc = LocInit
    /\ gnss = GnssInit
    /\ fixPending = FALSE
    /\ obs = ObsInit

(***************************************************************************)
(* State machine of the codec                                              *)
(***************************************************************************)
Init ==
    /\ FwInit
    /\ payload \in {PositionDefault, CommandDefault}
    /\ sent = NoCall
    /\ wire = <<>>
    /\ faults = 0
    /\ decoded = NotDecoded
    /\ verified = NotVerified
    /\ getCommandRet = "none"

Composing == sent.calls = 0 /\ decoded.status = "none"

\* the application fills the public fields of its Position
PopulatePosition ==
    /\ Composing
    /\ payload.kind = "Position"
    /\ \E s \in PositionSamples : payload' = [s EXCEPT !.hmac_ = payload.hmac_]
    /\ UNCHANGED <<sent, wire, faults, decoded, verified, getCommandRet>>
    /\ UNCHANGED fwVars

SetHeaderPosition ==
    /\ Composing
    /\ payload.kind = "Position"
    /\ \E isValid \in BOOLEAN : payload' = PositionSetHeader(payload, isValid)
    /\ UNCHANGED <<sent, wire, faults, decoded, verified, getCommandRet>>
    /\ UNCHANGED fwVars

PopulateCommand ==
    /\ Composing
    /\ payload.kind = "Command"
    /\ \E s \in CommandSamples : payload' = [s EXCEPT !.hmac_ = payload.hmac_]
    /\ UNCHANGED <<sent, wire, faults, decoded, verified, getCommandRet>>
    /\ UNCHANGED fwVars

SetHeaderCommand ==
    /\ Composing
    /\ payload.kind = "Command"
    /\ \E action \in CommandActions : payload' = CommandSetHeader(payload, action)
    /\ UNCHANGED <<sent, wire, faults, decoded, verified, getCommandRet>>
    /\ UNCHANGED fwVars

\* the application assigns a name or an arg of 256 bytes to the public field,
\* before or after a serialize call
Overfill ==
    /\ decoded.status = "none"
    /\ faults = 0
    /\ payload' = IF payload.kind = "Position"
                  THEN [payload EXCEPT !.name = LongField]
                  ELSE [payload EXCEPT !.arg = LongField]
    /\ payload' # payload
    /\ UNCHANGED <<sent, wire, faults, decoded, verified, getCommandRet>>
    /\ UNCHANGED fwVars

\* payload.serialize(key); the bytes returned become the datagram
SerializeCall ==
    /\ decoded.status = "none"
    /\ faults = 0
    /\ sent.calls < MaxSerialize
    /\ \E key \in SerializeKeys :
         LET r == Serialize(payload, key)
             f == SerializeFields(payload)
         IN  /\ payload' = r.obj
             /\ sent' = [calls |-> sent.calls + 1, status |-> r.status,
                         what |-> r.what, key |-> key,
                         fields |-> IF f.status = "ok" THEN f.value ELSE <<>>,
                         bytes |-> r.bytes, before |-> payload,
                         after |-> r.obj,
                         tag |-> IF r.status = "ok" /\ key # NoKey
                                 THEN SubSeq(r.bytes, Len(r.bytes) - 15,
                                             Len(r.bytes))
                                 ELSE sent.tag]
             /\ wire' = IF r.status = "ok" THEN r.bytes ELSE wire
    /\ UNCHANGED <<faults, decoded, verified, getCommandRet>>
    /\ UNCHANGED fwVars

\* the datagram of the object as it is now is on its way
InFlight ==
    /\ sent.status = "ok"
    /\ sent.after = payload
    /\ decoded.status = "none"
    /\ faults < MaxFaults

\* the transport flips one bit of one plain byte
FlipBit ==
    /\ InFlight
    /\ \E i \in 1..Len(wire), bit \in FlipBits :
         /\ IsPlain(wire[i])
         /\ wire' = [wire EXCEPT ![i] = B(Flip(Val(wire[i]), bit))]
    /\ faults' = faults + 1
    /\ UNCHANGED <<payload, sent, decoded, verified, getCommandRet>>
    /\ UNCHANGED fwVars

\* the transport delivers only the first len bytes
Truncate ==
    /\ InFlight
    /\ \E len \in 0..(Len(wire) - 1) : wire' = SubSeq(wire, 1, len)
    /\ faults' = faults + 1
    /\ UNCHANGED <<payload, sent, decoded, verified, getCommandRet>>
    /\ UNCHANGED fwVars

\* the transport delivers one byte more
Pad ==
    /\ InFlight
    /\ \E b \in OobBytes : wire' = Append(wire, B(b))
    /\ faults' = faults + 1
    /\ UNCHANGED <<payload, sent, decoded, verified, getCommandRet>>
    /\ UNCHANGED fwVars

\* the receiver of position reports: Position::init(wire)
InitPosition ==
    /\ payload.kind = "Position"
    /\ decoded.status = "none"
    /\ LET r == PositionInit(wire)
       IN  decoded' = [status |-> r.status, what |-> r.what, obj |-> r.obj,
                       reads |-> r.reads, data |-> wire, oob |-> FALSE]
    /\ UNCHANGED <<payload, sent, wire, faults, verified, getCommandRet>>
    /\ UNCHANGED fwVars

\* a read behind the end of the vector: undefined behaviour
ReadsBehind(r, data) == \E off \in r.reads : off >= Len(data)

\* Command::init(wire); reads behind the buffer find oob, or fault
InitCommand ==
    /\ payload.kind = "Command"
    /\ decoded.status = "none"
    /\ \E oob \in OobBytes, crash \in BOOLEAN :
         LET r == CommandInit(wire, B(oob))
         IN  /\ crash => ReadsBehind(r, wire)
             /\ decoded' = [status |-> IF crash THEN "crash" ELSE r.status,
                            what |-> r.what,
                            obj |-> IF crash THEN NoObject ELSE r.obj,
                            reads |-> r.reads, data |-> wire,
                            oob |-> ReadsBehind(r, wire)]
    /\ UNCHANGED <<payload, sent, wire, faults, verified, getCommandRet>>
    /\ UNCHANGED fwVars

\* faulty variant of VerifyCall: verify writes the tag it computed into the
\* mutable member hmac_
VerifyCall_StoresTag ==
    /\ decoded.status = "ok"
    /\ getCommandRet = "none"
    /\ \E key \in Keys \cup {NoKey} :
         LET v == Verify(decoded.obj, key)
             f == SerializeFields(decoded.obj)
         IN  /\ verified' = [status |-> v.status, key |-> key,
                             result |-> IF v.status = "ok" THEN v.value ELSE FALSE]
             /\ decoded' = IF v.status = "ok"
                           THEN [decoded EXCEPT !.obj.hmac_ =
                                   compute_hmac_sha256_trunc(key, f.value)]
                           ELSE decoded
    /\ UNCHANGED <<payload, sent, wire, faults, getCommandRet>>
    /\ UNCHANGED fwVars

\* decoded.verify(key)
VerifyCall ==
    /\ decoded.status = "ok"
    /\ getCommandRet = "none"
    /\ \E key \in Keys \cup {NoKey} :
         LET v == Verify(decoded.obj, key)
         IN  verified' = [status |-> v.status, key |-> key,
                          result |-> IF v.status = "ok" THEN v.value ELSE FALSE]
    /\ UNCHANGED <<payload, sent, wire, faults, decoded, getCommandRet>>
    /\ UNCHANGED fwVars

\* getCommand(command): the modem hands over the datagram, if it rang
GetCommand ==
    /\ payload.kind = "Command"
    /\ decoded.status = "none"
    /\ \E ring \in BOOLEAN, oob \in OobBytes, crash \in BOOLEAN :
         LET r == CommandInit(wire, B(oob))
             v == Verify(r.obj, WT_CFG_SECRET)
         IN  IF ~ring \/ Len(wire) = 0
             THEN /\ ~crash
                  /\ getCommandRet' = "false"
                  /\ UNCHANGED <<decoded, verified>>
             ELSE IF r.status = "error"
             THEN /\ ~crash
                  /\ decoded' = [status |-> "error", what |-> r.what,
                                 obj |-> NoObject, reads |-> r.reads,
                                 data |-> wire, oob |-> FALSE]
                  /\ getCommandRet' = "false"
                  /\ UNCHANGED verified
             ELSE IF crash
             THEN /\ ReadsBehind(r, wire)
                  /\ decoded' = [status |-> "crash", what |-> r.what,
                                 obj |-> NoObject, reads |-> r.reads,
                                 data |-> wire, oob |-> TRUE]
                  /\ UNCHANGED <<verified, getCommandRet>>
             ELSE /\ decoded' = [status |-> "ok", what |-> r.what,
                                 obj |-> r.obj, reads |-> r.reads,
                                 data |-> wire, oob |-> ReadsBehind(r, wire)]
                  /\ verified' = [status |-> v.status, key |-> WT_CFG_SECRET,
                                  result |-> IF v.status = "ok" THEN v.value
                                             ELSE FALSE]
                  /\ getCommandRet' = "true"
    /\ UNCHANGED <<payload, sent, wire, faults>>
    /\ UNCHANGED fwVars

Next ==
    \/ PopulatePosition
    \/ SetHeaderPosition
    \/ PopulateCommand
    \/ SetHeaderCommand
    \/ Overfill
    \/ SerializeCall
    \/ FlipBit
    \/ Truncate
    \/ Pad
    \/ InitPosition
    \/ InitCommand
    \/ VerifyCall
    \/ GetCommand

Spec == Init /\ [][Next]_vars

--------------------------------------------------------------------------
(***************************************************************************)
(* State machine of the LTE and GNSS procedures.  The main task executes   *)
(* one statement, or one run of statements that touch no shared state, per *)
(* step.  A modem call answers whatever the modem may answer; a GNSS fix   *)
(* event is delivered only while a fix request is in progress, and         *)
(* gnssEventHandler runs to completion when it is delivered.               *)
(***************************************************************************)
CallTo(entry, back) ==
    /\ pc' = entry
    /\ stack' = <<back>> \o stack
    /\ UNCHANGED ret

ReturnTo(value) ==
    /\ pc' = Head(stack)
    /\ stack' = Tail(stack)
    /\ ret' = value

\* the application calls a function
CallTop(fn, entry) ==
    /\ pc = "idle"
    /\ obs.calls < MaxCalls
    /\ pc' = entry
    /\ stack' = <<"done">>
    /\ obs' = [ObsInit EXCEPT !.calls = obs.calls + 1, !.fn = fn]
    /\ UNCHANGED <<ret, gnss, fixPending>>

\* the function called by the application has returned
TopReturn ==
    /\ pc = "done"
    /\ pc' = "idle"
    /\ obs' = [ObsInit EXCEPT !.calls = obs.calls]
    /\ UNCHANGED <<stack, ret, loc, gnss, fixPending>>
    /\ UNCHANGED codecVars

\* isLteConnected, on the registration state the modem reports
IsLteConnected(regState) ==
    regState = "REGISTERED_HOME" \/ regState = "REGISTERED_ROAMING"

CallWaitForNetwork ==
    /\ CallTop("waitForNetwork", "wfn_entry")
    /\ UNCHANGED loc
    /\ UNCHANGED codecVars

\* waitForNetwork: int timeout = 0
WfnEnter ==
    /\ pc = "wfn_entry"
    /\ pc' = "wfn_test"
    /\ loc' = [loc EXCEPT !.timeout = 0]
    /\ obs' = [obs EXCEPT !.wfn = "running", !.polls = 0, !.waits = 0,
                          !.registered = FALSE]
    /\ UNCHANGED <<stack, ret, gnss, fixPending>>
    /\ UNCHANGED codecVars

\* waitForNetwork: while (!isLteConnected()) ... return true
WfnTest ==
    /\ pc = "wfn_test"
    /\ \E regState \in RegStates :
         IF IsLteConnected(regState)
         THEN /\ ReturnTo(TRUE)
              /\ loc' = [loc EXCEPT !.timeout = 0]
              /\ obs' = [obs EXCEPT !.wfn = "true", !.polls = obs.polls + 1,
                                    !.registered = TRUE]
         ELSE /\ pc' = "wfn_delay"
              /\ obs' = [obs EXCEPT !.polls = obs.polls + 1]
              /\ UNCHANGED <<stack, ret, loc>>
    /\ UNCHANGED <<gnss, fixPending>>
    /\ UNCHANGED codecVars

\* waitForNetwork: delay(1000); if (timeout++ >= MAX_NETWORK_TIMEOUT_SECONDS)
\* { lteDisconnect(); ...
WfnDelay ==
    /\ pc = "wfn_delay"
    /\ loc' = [loc EXCEPT !.timeout = loc.timeout + 1]
    /\ obs' = [obs EXCEPT !.waits = obs.waits + 1]
    /\ IF loc.timeout >= MAX_NETWORK_TIMEOUT_SECONDS
       THEN CallTo("ld_entry", "wfn_timeout")
       ELSE pc' = "wfn_test" /\ UNCHANGED <<stack, ret>>
    /\ UNCHANGED <<gnss, fixPending>>
    /\ UNCHANGED codecVars

\* waitForNetwork: ... return false; } the result of lteDisconnect is dropped
WfnTimeout ==
    /\ pc = "wfn_timeout"
    /\ ReturnTo(FALSE)
    /\ loc' = [loc EXCEPT !.timeout = 0]
    /\ obs' = [obs EXCEPT !.wfn = "false"]
    /\ UNCHANGED <<gnss, fixPending>>
    /\ UNCHANGED codecVars

CallLteConnect ==
    /\ CallTop("lteConnect", "lc_entry")
    /\ UNCHANGED loc
    /\ UNCHANGED codecVars

\* lteConnect: setOpState(NO_RF), definePDPContext, setOpState(FULL),
\* setNetworkSelectionMode; the first that fails returns false
LcSetup ==
    /\ pc = "lc_entry"
    /\ \E ok \in BOOLEAN :
         IF ok THEN CallTo("wfn_entry", "lc_ret") ELSE ReturnTo(FALSE)
    /\ UNCHANGED <<loc, gnss, fixPending, obs>>
    /\ UNCHANGED codecVars

\* lteConnect: return waitForNetwork()
LcReturn ==
    /\ pc = "lc_ret"
    /\ ReturnTo(ret)
    /\ obs' = [obs EXCEPT !.wfn = "idle", !.polls = 0, !.waits = 0,
                          !.registered = FALSE]
    /\ UNCHANGED <<loc, gnss, fixPending>>
    /\ UNCHANGED codecVars

\* lteDisconnect: setOpState(MINIMUM), then the first getNetworkRegState
LdSetOpState ==
    /\ pc = "ld_entry"
    /\ \E ok \in BOOLEAN, regState \in RegStates :
         IF ~ok
         THEN /\ ReturnTo(FALSE)
              /\ obs' = [obs EXCEPT !.disconnect =
                           [returned |-> "false", regState |-> "none"]]
              /\ UNCHANGED loc
         ELSE IF regState = "NOT_SEARCHING"
         THEN /\ ReturnTo(TRUE)
              /\ obs' = [obs EXCEPT !.disconnect =
                           [returned |-> "true", regState |-> regState]]
              /\ UNCHANGED loc
         ELSE /\ pc' = "ld_loop"
              /\ loc' = [loc EXCEPT !.regState = regState]
              /\ obs' = [obs EXCEPT !.disconnect =
                           [returned |-> "none", regState |-> regState]]
              /\ UNCHANGED <<stack, ret>>
    /\ UNCHANGED <<gnss, fixPending>>
    /\ UNCHANGED codecVars

\* lteDisconnect: while (regState != NOT_SEARCHING) { delay(100);
\* regState = modem.getNetworkRegState(); }
LdPoll ==
    /\ pc = "ld_loop"
    /\ \E regState \in RegStates :
         IF regState = "NOT_SEARCHING"
         THEN /\ ReturnTo(TRUE)
              /\ loc' = [loc EXCEPT !.regState = "none"]
              /\ obs' = [obs EXCEPT !.disconnect =
                           [returned |-> "true", regState |-> regState]]
         ELSE /\ loc' = [loc EXCEPT !.regState = regState]
              /\ obs' = [obs EXCEPT !.disconnect.regState = regState]
              /\ UNCHANGED <<pc, stack, ret>>
    /\ UNCHANGED <<gnss, fixPending>>
    /\ UNCHANGED codecVars

\* rsp->data.clock.epochTime as gnssGetUTCTime reports it
EpochSamples == {0, 4, 5}

\* faulty variant of ClockValid: an epochTime of 4 passes
ClockValid_From4(epochTime) == epochTime >= 4

\* validateGNSSClock: rsp->data.clock.epochTime > 4
ClockValid(epochTime) == epochTime > 4

\* a UTC time query was made and reported epochTime
ObsQuery(epochTime) ==
    [obs EXCEPT !.clock.queries = @ + 1,
                !.clock.maxEpoch = IF epochTime > @ THEN epochTime ELSE @]

\* validateGNSSClock: modem.gnssGetUTCTime; epochTime > 4
VcFirstQuery ==
    /\ pc = "vc_entry"
    /\ \E epochTime \in EpochSamples :
         /\ obs' = ObsQuery(epochTime)
         /\ IF ClockValid(epochTime)
            THEN ReturnTo(TRUE)
            ELSE pc' = "vc_connect" /\ UNCHANGED <<stack, ret>>
    /\ UNCHANGED <<loc, gnss, fixPending>>
    /\ UNCHANGED codecVars

\* validateGNSSClock: if (!isLteConnected() && !lteConnect())
VcConnect ==
    /\ pc = "vc_connect"
    /\ \E regState \in RegStates :
         IF IsLteConnected(regState)
         THEN /\ pc' = "vc_loop"
              /\ obs' = [obs EXCEPT !.clock.registered = "yes"]
              /\ UNCHANGED <<stack, ret>>
         ELSE /\ CallTo("lc_entry", "vc_connected")
              /\ obs' = [obs EXCEPT !.clock.registered = "no",
                                    !.clock.lteConnect = "called"]
    /\ loc' = [loc EXCEPT !.clockQueries = 0]
    /\ UNCHANGED <<gnss, fixPending>>
    /\ UNCHANGED codecVars

\* validateGNSSClock: lteConnect has returned
VcConnected ==
    /\ pc = "vc_connected"
    /\ obs' = [obs EXCEPT !.clock.lteConnect = IF ret THEN "true" ELSE "false"]
    /\ IF ret
       THEN pc' = "vc_loop" /\ UNCHANGED <<stack, ret>>
       ELSE ReturnTo(FALSE)
    /\ UNCHANGED <<loc, gnss, fixPending>>
    /\ UNCHANGED codecVars

\* validateGNSSClock: for (int i = 0; i < 5; ++i) { query; delay(2000); }
VcQuery ==
    /\ pc = "vc_loop"
    /\ IF loc.clockQueries < CLOCK_SYNC_QUERIES
       THEN \E epochTime \in EpochSamples :
              /\ obs' = ObsQuery(epochTime)
              /\ IF ClockValid(epochTime)
                 THEN ReturnTo(TRUE) /\ loc' = [loc EXCEPT !.clockQueries = 0]
                 ELSE /\ loc' = [loc EXCEPT !.clockQueries = loc.clockQueries + 1]
                      /\ UNCHANGED <<pc, stack, ret>>
       ELSE /\ ReturnTo(FALSE)
            /\ loc' = [loc EXCEPT !.clockQueries = 0]
            /\ UNCHANGED obs
    /\ UNCHANGED <<gnss, fixPending>>
    /\ UNCHANGED codecVars

\* almanac and ephemeris as gnssGetAssistanceStatus reports them
AssistanceSamples ==
    {[available |-> FALSE, timeToUpdate |-> 0],
     [available |-> TRUE, timeToUpdate |-> 0],
     [available |-> TRUE, timeToUpdate |-> 3600]}

\* faulty variant of UpdateFlag: every data set is taken to need an update
UpdateFlag_Always(data) == data.available \/ ~data.available

\* checkAssistanceStatus: reportAndSetUpdateFlag
UpdateFlag(data) == IF data.available THEN data.timeToUpdate <= 0 ELSE TRUE

\* updateGNSSAssistance: checkAssistanceStatus(rsp, &updateAlmanac,
\* &updateEphemeris) and the no update needed test
UaCheck ==
    /\ pc = "ua_entry"
    /\ \E ok \in BOOLEAN, almanac \in AssistanceSamples,
          realtimeEphemeris \in AssistanceSamples :
         /\ obs' = [obs EXCEPT !.assist.status =
                      IF ~ok THEN "failed"
                      ELSE IF /\ almanac.available
                              /\ almanac.timeToUpdate > 0
                              /\ realtimeEphemeris.available
                              /\ realtimeEphemeris.timeToUpdate > 0
                      THEN "fresh" ELSE "stale"]
         /\ IF ~ok
            THEN ReturnTo(FALSE) /\ UNCHANGED loc
            ELSE IF ~UpdateFlag(almanac) /\ ~UpdateFlag(realtimeEphemeris)
            THEN ReturnTo(TRUE) /\ UNCHANGED loc
            ELSE /\ pc' = "ua_connect"
                 /\ loc' = [loc EXCEPT !.updateAlmanac = UpdateFlag(almanac),
                                       !.updateEphemeris = UpdateFlag(realtimeEphemeris)]
                 /\ UNCHANGED <<stack, ret>>
    /\ UNCHANGED <<gnss, fixPending>>
    /\ UNCHANGED codecVars

\* updateGNSSAssistance: if (!isLteConnected() && !lteConnect())
UaConnect ==
    /\ pc = "ua_connect"
    /\ \E regState \in RegStates :
         IF IsLteConnected(regState)
         THEN /\ pc' = "ua_update"
              /\ obs' = [obs EXCEPT !.assist.registered = "yes"]
              /\ UNCHANGED <<stack, ret>>
         ELSE /\ CallTo("lc_entry", "ua_connected")
              /\ obs' = [obs EXCEPT !.assist.registered = "no",
                                    !.assist.lteConnect = "called"]
    /\ UNCHANGED <<loc, gnss, fixPending>>
    /\ UNCHANGED codecVars

\* updateGNSSAssistance: lteConnect has returned
UaConnected ==
    /\ pc = "ua_connected"
    /\ obs' = [obs EXCEPT !.assist.lteConnect = IF ret THEN "true" ELSE "false"]
    /\ IF ret
       THEN pc' = "ua_update" /\ UNCHANGED <<stack, ret, loc>>
       ELSE /\ ReturnTo(FALSE)
            /\ loc' = [loc EXCEPT !.updateAlmanac = FALSE,
                                  !.updateEphemeris = FALSE]
    /\ UNCHANGED <<gnss, fixPending>>
    /\ UNCHANGED codecVars

\* updateGNSSAssistance: gnssUpdateAssistance for the almanac, then for the
\* real-time ephemeris, as far as flagged, then the recheck; the first call
\* that fails returns false
UaUpdate ==
    /\ pc = "ua_update"
    /\ \E almanacOk \in BOOLEAN, ephemerisOk \in BOOLEAN, recheckOk \in BOOLEAN :
         LET almanacDone == loc.updateAlmanac => almanacOk
             ephemerisTried == almanacDone /\ loc.updateEphemeris
             ephemerisDone == loc.updateEphemeris => ephemerisOk
         IN  /\ ReturnTo(almanacDone /\ ephemerisDone /\ recheckOk)
             /\ obs' = [obs EXCEPT !.assist.downloads =
                          (IF loc.updateAlmanac THEN 1 ELSE 0)
                            + (IF ephemerisTried THEN 1 ELSE 0)]
    /\ loc' = [loc EXCEPT !.updateAlmanac = FALSE, !.updateEphemeris = FALSE]
    /\ UNCHANGED <<gnss, fixPending>>
    /\ UNCHANGED codecVars

\* gnssEventHandler: satellites with a good signal strength
CountSatellites(sats) ==
    Cardinality({k \in 1..Len(sats) : sats[k] >= MIN_SIGNAL_STRENGTH})

\* the modem delivers the fix of the request in progress: gnssEventHandler
GnssEvent ==
    /\ fixPending
    /\ \E fix \in FixSamples :
         /\ gnss' = [latestGnssFix |-> fix, gnssFixRcvd |-> TRUE,
                     gnssFixNumSatellites |-> CountSatellites(fix.sats),
                     gnssFixDurationSeconds |-> 0]
         /\ obs' = [obs EXCEPT !.fixSinceRequest = TRUE, !.lastEvent = fix]
    /\ fixPending' = FALSE
    /\ UNCHANGED <<pc, stack, ret, loc>>
    /\ UNCHANGED codecVars

\* ESP.restart(): the firmware starts over
Restart ==
    /\ pc' = "idle"
    /\ stack' = <<>>
    /\ ret' = FALSE
    /\ loc' = LocInit
    /\ gnss' = GnssInit
    /\ fixPending' = FALSE
    /\ obs' = [ObsInit EXCEPT !.calls = obs.calls]

\* a function with the fix loop returns
ReturnFix(value) ==
    /\ ReturnTo(value)
    /\ loc' = [loc EXCEPT !.numAttempts = 0, !.i = 0]

CallAttemptGnssFix ==
    /\ pc = "idle"
    /\ obs.calls < MaxCalls
    /\ pc' = "ag_entry"
    /\ stack' = <<"done">>
    /\ \E numAttempts \in AttemptArgs :
         /\ loc' = [loc EXCEPT !.numAttempts = numAttempts]
         /\ obs' = [ObsInit EXCEPT !.calls = obs.calls + 1,
                                   !.fn = "attemptGnssFix",
                                   !.numAttempts = numAttempts]
    /\ UNCHANGED <<ret, gnss, fixPending>>
    /\ UNCHANGED codecVars

\* attemptGnssFix: the clamp of numAttempts, validateGNSSClock(&rsp)
AgEnter ==
    /\ pc = "ag_entry"
    /\ loc' = [loc EXCEPT !.numAttempts =
                 IF loc.numAttempts > MAX_GNSS_FIX_ATTEMPTS
                 THEN MAX_GNSS_FIX_ATTEMPTS ELSE loc.numAttempts]
    /\ CallTo("vc_entry", "ag_clock")
    /\ UNCHANGED <<gnss, fixPending, obs>>
    /\ UNCHANGED codecVars

\* attemptGnssFix: validateGNSSClock has returned; updateGNSSAssistance(&rsp)
AgClock ==
    /\ pc = "ag_clock"
    /\ IF ret
       THEN /\ CallTo("ua_entry", "ag_assist")
            /\ obs' = [obs EXCEPT !.clock = ClockIdle]
            /\ UNCHANGED loc
       ELSE /\ ReturnFix(FALSE)
            /\ obs' = [obs EXCEPT !.aborted = TRUE, !.clock = ClockIdle]
    /\ UNCHANGED <<gnss, fixPending>>
    /\ UNCHANGED codecVars

\* attemptGnssFix: updateGNSSAssistance has returned, a failure is only
\* logged; lteDisconnect()
AgAssist ==
    /\ pc = "ag_assist"
    /\ CallTo("ld_entry", "ag_disc")
    /\ obs' = [obs EXCEPT !.assist = AssistIdle,
                          !.disconnect = DisconnectIdle]
    /\ UNCHANGED <<loc, gnss, fixPending>>
    /\ UNCHANGED codecVars

\* faulty variant of AgDisconnected: the result of lteDisconnect is dropped
AgDisconnected_Unchecked ==
    /\ pc = "ag_disc"
    /\ pc' = "ag_loop"
    /\ loc' = [loc EXCEPT !.i = 0]
    /\ UNCHANGED <<stack, ret, obs>>
    /\ UNCHANGED <<gnss, fixPending>>
    /\ UNCHANGED codecVars

\* attemptGnssFix: lteDisconnect has returned; gnssConfig for a hot start
\* when the last fix was good, whatever it answers; uint8_t i = 0
AgDisconnected ==
    /\ pc = "ag_disc"
    /\ IF ret
       THEN /\ pc' = "ag_loop"
            /\ loc' = [loc EXCEPT !.i = 0]
            /\ UNCHANGED <<stack, ret, obs>>
       ELSE ReturnFix(FALSE) /\ obs' = [obs EXCEPT !.aborted = TRUE]
    /\ UNCHANGED <<gnss, fixPending>>
    /\ UNCHANGED codecVars

\* faulty variant of AgLoop: gnssFixRcvd is not cleared before the request
AgLoop_NoReset ==
    /\ pc = "ag_loop"
    /\ IF loc.i < loc.numAttempts
       THEN /\ pc' = "ag_request"
            /\ UNCHANGED <<stack, ret, loc>>
       ELSE ReturnFix(FALSE)
    /\ UNCHANGED <<gnss, fixPending, obs>>
    /\ UNCHANGED codecVars

\* attemptGnssFix: i < numAttempts; gnssFixRcvd = false
AgLoop ==
    /\ pc = "ag_loop"
    /\ IF loc.i < loc.numAttempts
       THEN /\ pc' = "ag_request"
            /\ gnss' = [gnss EXCEPT !.gnssFixRcvd = FALSE]
            /\ UNCHANGED <<stack, ret, loc>>
       ELSE ReturnFix(FALSE) /\ UNCHANGED gnss
    /\ UNCHANGED <<fixPending, obs>>
    /\ UNCHANGED codecVars

\* attemptGnssFix: if (!modem.gnssPerformAction()) return false
AgRequest ==
    /\ pc = "ag_request"
    /\ \E ok \in BOOLEAN :
         IF ok
         THEN /\ pc' = "ag_wait"
              /\ fixPending' = TRUE
              /\ obs' = [obs EXCEPT !.requests = obs.requests + 1,
                                    !.fixSinceRequest = FALSE,
                                    !.fixWaits = 0]
              /\ UNCHANGED <<stack, ret, loc>>
         ELSE /\ ReturnFix(FALSE)
              /\ obs' = [obs EXCEPT !.aborted = TRUE]
              /\ UNCHANGED fixPending
    /\ UNCHANGED gnss
    /\ UNCHANGED codecVars

\* attemptGnssFix: while (!gnssFixRcvd)
AgWait ==
    /\ pc = "ag_wait"
    /\ pc' = IF gnss.gnssFixRcvd THEN "ag_check" ELSE "ag_delay"
    /\ UNCHANGED <<stack, ret, loc, gnss, fixPending, obs>>
    /\ UNCHANGED codecVars

\* faulty variant of AgDelay: the cancel comes one wait late
AgDelay_OffByOne ==
    /\ pc = "ag_delay"
    /\ gnss' = [gnss EXCEPT !.gnssFixDurationSeconds = @ + 1]
    /\ obs' = [obs EXCEPT !.fixWaits = @ + 1]
    /\ pc' = IF gnss.gnssFixDurationSeconds > MAX_GNSS_FIX_DURATION_SECONDS
             THEN "ag_cancel" ELSE "ag_wait"
    /\ UNCHANGED <<stack, ret, loc, fixPending>>
    /\ UNCHANGED codecVars

\* attemptGnssFix: delay(1000);
\* if (gnssFixDurationSeconds++ >= MAX_GNSS_FIX_DURATION_SECONDS)
AgDelay ==
    /\ pc = "ag_delay"
    /\ gnss' = [gnss EXCEPT !.gnssFixDurationSeconds = @ + 1]
    /\ obs' = [obs EXCEPT !.fixWaits = @ + 1]
    /\ pc' = IF gnss.gnssFixDurationSeconds >= MAX_GNSS_FIX_DURATION_SECONDS
             THEN "ag_cancel" ELSE "ag_wait"
    /\ UNCHANGED <<stack, ret, loc, fixPending>>
    /\ UNCHANGED codecVars

\* the values gnssFixDurationSeconds++ has read when gnssEventHandler runs
\* between its read and its write: early in a wait, and on the last wait
\* before the limit of either loop
LostUpdateSamples ==
    {1, MAX_GNSS_FIX_DURATION_SECONDS - 1, INITIAL_FIX_RESTART_SECONDS - 1}

\* attemptGnssFix: gnssFixDurationSeconds++ reads the counter, gnssEventHandler
\* runs in the modem's task and stores 0, and the increment stores what it
\* read plus one: the handler's store is lost
AgDelayLostUpdate ==
    /\ pc = "ag_delay"
    /\ fixPending
    /\ gnss.gnssFixDurationSeconds \in LostUpdateSamples
    /\ \E fix \in FixSamples :
         /\ gnss' = [latestGnssFix |-> fix, gnssFixRcvd |-> TRUE,
                     gnssFixNumSatellites |-> CountSatellites(fix.sats),
                     gnssFixDurationSeconds |-> gnss.gnssFixDurationSeconds + 1]
         /\ obs' = [obs EXCEPT !.fixSinceRequest = TRUE, !.lastEvent = fix,
                               !.fixWaits = @ + 1]
    /\ fixPending' = FALSE
    /\ pc' = IF gnss.gnssFixDurationSeconds >= MAX_GNSS_FIX_DURATION_SECONDS
             THEN "ag_cancel" ELSE "ag_wait"
    /\ UNCHANGED <<stack, ret, loc>>
    /\ UNCHANGED codecVars

\* attemptGnssFix: gnssPerformAction(CANCEL): gnssFixDurationSeconds = 0;
\* delay(1000); break; or ESP.restart()
AgCancel ==
    /\ pc = "ag_cancel"
    /\ \E ok \in BOOLEAN :
         IF ok
         THEN /\ pc' = "ag_check"
              /\ gnss' = [gnss EXCEPT !.gnssFixDurationSeconds = 0]
              /\ fixPending' = FALSE
              /\ UNCHANGED <<stack, ret, loc, obs>>
         ELSE Restart
    /\ UNCHANGED codecVars

\* attemptGnssFix: if (gnssFixRcvd) { confidence test } else return false
AgCheck ==
    /\ pc = "ag_check"
    /\ IF gnss.gnssFixRcvd
       THEN IF gnss.latestGnssFix.estimatedConfidence <= MAX_GNSS_CONFIDENCE
            THEN ReturnFix(TRUE)
            ELSE /\ pc' = "ag_loop"
                 /\ loc' = [loc EXCEPT !.i = loc.i + 1]
                 /\ UNCHANGED <<stack, ret>>
       ELSE ReturnFix(FALSE)
    /\ obs' = [obs EXCEPT !.fixWaits = 0]
    /\ UNCHANGED <<gnss, fixPending>>
    /\ UNCHANGED codecVars

CallWaitForInitialGnssFix ==
    /\ CallTop("waitForInitialGnssFix", "wi_entry")
    /\ UNCHANGED loc
    /\ UNCHANGED codecVars

\* waitForInitialGnssFix: validateGNSSClock(&rsp)
WiEnter ==
    /\ pc = "wi_entry"
    /\ CallTo("vc_entry", "wi_clock")
    /\ UNCHANGED <<loc, gnss, fixPending, obs>>
    /\ UNCHANGED codecVars

\* waitForInitialGnssFix: validateGNSSClock has returned;
\* updateGNSSAssistance(&rsp)
WiClock ==
    /\ pc = "wi_clock"
    /\ IF ret
       THEN CallTo("ua_entry", "wi_assist") /\ UNCHANGED loc
       ELSE ReturnFix(FALSE)
    /\ obs' = [obs EXCEPT !.clock = ClockIdle]
    /\ UNCHANGED <<gnss, fixPending>>
    /\ UNCHANGED codecVars

\* waitForInitialGnssFix: updateGNSSAssistance has returned; lteDisconnect()
WiAssist ==
    /\ pc = "wi_assist"
    /\ CallTo("ld_entry", "wi_disc")
    /\ obs' = [obs EXCEPT !.assist = AssistIdle,
                          !.disconnect = DisconnectIdle]
    /\ UNCHANGED <<loc, gnss, fixPending>>
    /\ UNCHANGED codecVars

\* waitForInitialGnssFix: lteDisconnect has returned;
\* maxGnssFixAttempts = MAX_GNSS_FIX_ATTEMPTS; uint8_t i = 0
WiDisconnected ==
    /\ pc = "wi_disc"
    /\ IF ret
       THEN /\ pc' = "wi_loop"
            /\ loc' = [loc EXCEPT !.numAttempts = MAX_GNSS_FIX_ATTEMPTS, !.i = 0]
            /\ UNCHANGED <<stack, ret>>
       ELSE ReturnFix(FALSE)
    /\ UNCHANGED <<gnss, fixPending, obs>>
    /\ UNCHANGED codecVars

\* waitForInitialGnssFix: i < maxGnssFixAttempts; gnssFixRcvd = false
WiLoop ==
    /\ pc = "wi_loop"
    /\ IF loc.i < loc.numAttempts
       THEN /\ pc' = "wi_request"
            /\ gnss' = [gnss EXCEPT !.gnssFixRcvd = FALSE]
            /\ UNCHANGED <<stack, ret, loc>>
       ELSE ReturnFix(FALSE) /\ UNCHANGED gnss
    /\ UNCHANGED <<fixPending, obs>>
    /\ UNCHANGED codecVars

\* waitForInitialGnssFix: if (!modem.gnssPerformAction()) return false
WiRequest ==
    /\ pc = "wi_request"
    /\ \E ok \in BOOLEAN :
         IF ok
         THEN /\ pc' = "wi_wait"
              /\ fixPending' = TRUE
              /\ obs' = [obs EXCEPT !.requests = obs.requests + 1,
                                    !.fixSinceRequest = FALSE,
                                    !.fixWaits = 0]
              /\ UNCHANGED <<stack, ret, loc>>
         ELSE ReturnFix(FALSE) /\ UNCHANGED <<fixPending, obs>>
    /\ UNCHANGED gnss
    /\ UNCHANGED codecVars

\* waitForInitialGnssFix: while (!gnssFixRcvd), then the confidence test
WiWait ==
    /\ pc = "wi_wait"
    /\ IF ~gnss.gnssFixRcvd
       THEN pc' = "wi_delay" /\ UNCHANGED <<stack, ret, loc>>
       ELSE IF gnss.latestGnssFix.estimatedConfidence <= MAX_GNSS_CONFIDENCE
       THEN ReturnFix(TRUE)
       ELSE /\ pc' = "wi_loop"
            /\ loc' = [loc EXCEPT !.i = loc.i + 1]
            /\ UNCHANGED <<stack, ret>>
    /\ obs' = [obs EXCEPT !.fixWaits = IF gnss.gnssFixRcvd THEN 0 ELSE @]
    /\ UNCHANGED <<gnss, fixPending>>
    /\ UNCHANGED codecVars

\* waitForInitialGnssFix: delay(1000);
\* if (gnssFixDurationSeconds++ >= 300)
WiDelay ==
    /\ pc = "wi_delay"
    /\ gnss' = [gnss EXCEPT !.gnssFixDurationSeconds = @ + 1]
    /\ obs' = [obs EXCEPT !.fixWaits = @ + 1]
    /\ pc' = IF gnss.gnssFixDurationSeconds >= INITIAL_FIX_RESTART_SECONDS
             THEN "wi_restart" ELSE "wi_wait"
    /\ UNCHANGED <<stack, ret, loc, fixPending>>
    /\ UNCHANGED codecVars

\* waitForInitialGnssFix: gnssFixDurationSeconds++ with the store of
\* gnssEventHandler lost between its read and its write
WiDelayLostUpdate ==
    /\ pc = "wi_delay"
    /\ fixPending
    /\ gnss.gnssFixDurationSeconds \in LostUpdateSamples
    /\ \E fix \in FixSamples :
         /\ gnss' = [latestGnssFix |-> fix, gnssFixRcvd |-> TRUE,
                     gnssFixNumSatellites |-> CountSatellites(fix.sats),
                     gnssFixDurationSeconds |-> gnss.gnssFixDurationSeconds + 1]
         /\ obs' = [obs EXCEPT !.fixSinceRequest = TRUE, !.lastEvent = fix,
                               !.fixWaits = @ + 1]
    /\ fixPending' = FALSE
    /\ pc' = IF gnss.gnssFixDurationSeconds >= INITIAL_FIX_RESTART_SECONDS
             THEN "wi_restart" ELSE "wi_wait"
    /\ UNCHANGED <<stack, ret, loc>>
    /\ UNCHANGED codecVars

\* waitForInitialGnssFix: delay(500); ESP.restart()
WiRestart ==
    /\ pc = "wi_restart"
    /\ Restart
    /\ UNCHANGED codecVars

\* one statement of the main task
MainStep ==
    \/ WfnEnter \/ WfnTest \/ WfnDelay \/ WfnTimeout
    \/ LcSetup \/ LcReturn
    \/ LdSetOpState \/ LdPoll
    \/ VcFirstQuery \/ VcConnect \/ VcConnected \/ VcQuery
    \/ UaCheck \/ UaConnect \/ UaConnected \/ UaUpdate
    \/ AgEnter \/ AgClock \/ AgAssist \/ AgDisconnected \/ AgLoop
    \/ AgRequest \/ AgWait \/ AgDelay \/ AgCancel \/ AgCheck
    \/ WiEnter \/ WiClock \/ WiAssist \/ WiDisconnected \/ WiLoop
    \/ WiRequest \/ WiWait \/ WiDelay \/ WiRestart
    \/ TopReturn

InitFw ==
    /\ payload = PositionDefault
    /\ sent = NoCall
    /\ wire = <<>>
    /\ faults = 0
    /\ decoded = NotDecoded
    /\ verified = NotVerified
    /\ getCommandRet = "none"
    /\ FwInit

NextFw ==
    \/ CallWaitForNetwork
    \/ CallLteConnect
    \/ CallAttemptGnssFix
    \/ CallWaitForInitialGnssFix
    \/ WfnEnter
    \/ WfnTest
    \/ WfnDelay
    \/ WfnTimeout
    \/ LcSetup
    \/ LcReturn
    \/ LdSetOpState
    \/ LdPoll
    \/ VcFirstQuery
    \/ VcConnect
    \/ VcConnected
    \/ VcQuery
    \/ UaCheck
    \/ UaConnect
    \/ UaConnected
    \/ UaUpdate
    \/ GnssEvent
    \/ AgEnter
    \/ AgClock
    \/ AgAssist
    \/ AgDisconnected
    \/ AgLoop
    \/ AgRequest
    \/ AgWait
    \/ AgDelay
    \/ AgDelayLostUpdate
    \/ AgCancel
    \/ AgCheck
    \/ WiEnter
    \/ WiClock
    \/ WiAssist
    \/ WiDisconnected
    \/ WiLoop
    \/ WiRequest
    \/ WiWait
    \/ WiDelay
    \/ WiDelayLostUpdate
    \/ WiRestart
    \/ TopReturn

\* the procedures, any scheduling
SpecFw == InitFw /\ [][NextFw]_vars

\* the main task is never suspended for good: the statement it is at is
\* executed eventually.  Nothing is assumed about the modem.
FairSpecFw == SpecFw /\ WF_vars(MainStep)

--------------------------------------------------------------------------
(***************************************************************************)
(* Properties                                                              *)
(***************************************************************************)
PositionDecoded == payload.kind = "Position" /\ decoded.status # "none"
CommandDecoded == payload.kind = "Command" /\ decoded.status # "none"

\* the fields of an object, the tag left out
FieldsOf(o) == [o EXCEPT !.hmac_ = ZeroTag]

\* the datagram decoded is the one serialize returned
Undisturbed == sent.status = "ok" /\ decoded.data = sent.bytes

\* C1: getCommand returns true only if the buffer was decoded into a Command
\* and the Command's stored tag verified against the configured secret.
C1_GetCommandOnlyVerified ==
    getCommandRet = "true" =>
        /\ decoded.status = "ok"
        /\ verified.status = "ok"
        /\ verified.key = WT_CFG_SECRET
        /\ verified.result

\* C2: a Command buffer of at least 18 bytes whose arg length byte n overruns
\* it (length < 2 + n + 16) fails to decode: an error, no Command, and no
\* byte read outside the buffer.
C2_CommandOverrunFails ==
    (/\ CommandDecoded
     /\ Len(decoded.data) >= 18
     /\ Len(decoded.data) < 2 + Val(decoded.data[2]) + 16)
    => /\ decoded.status = "error"
       /\ decoded.obj = NoObject
       /\ \A off \in decoded.reads : off < Len(decoded.data)

\* C3: a Command buffer with bytes after the 16 byte tag (length > 2 + n + 16)
\* fails to decode: an error and no Command.
C3_CommandTrailingFails ==
    (/\ CommandDecoded
     /\ Len(decoded.data) >= 18
     /\ Len(decoded.data) > 2 + Val(decoded.data[2]) + 16)
    => /\ decoded.status = "error"
       /\ decoded.obj = NoObject

\* C4: Position decode succeeds only when the buffer length is exactly
\* 19 + n + 16, 19 being the bytes of the fixed fields and the name length
\* byte and n the name length byte; a shorter or longer buffer fails with an
\* error and yields no Position.
C4_PositionExactLength ==
    PositionDecoded =>
        LET data == decoded.data
            exact == /\ Len(data) >= 19
                     /\ Len(data) = 19 + Val(data[19]) + 16
        IN  /\ decoded.status \in {"ok", "error"}
            /\ decoded.status = "ok" <=> exact
            /\ decoded.status = "error" => decoded.obj = NoObject

\* C4 witness: a Position buffer with a trailing byte was refused
C4_Witness ==
    /\ PositionDecoded
    /\ decoded.status = "error"
    /\ Len(decoded.data) >= 19
    /\ Len(decoded.data) > 19 + Val(decoded.data[19]) + 16

\* C5 as the spec states it: a serialized Position follows the wire table
\* with a timestamp: header 0, interval 1, device 2-7, latitude 8-11,
\* longitude 12-15, timestamp 16-19, name length 20, name 21, tag 21 + n,
\* 37 + n bytes in all.
C5_SpecWireTable ==
    (sent.status = "ok" /\ sent.before.kind = "Position") =>
        LET p == sent.before
            b == sent.bytes
            n == Len(p.name)
        IN  /\ Len(b) = 37 + n
            /\ b[1] = B(p.header)
            /\ b[2] = B(p.interval)
            /\ \A i \in 1..6 : b[2 + i] = B(p.device[i])
            /\ read_be_i32(b, 8) = RoundScaled(p.latitude)
            /\ read_be_i32(b, 12) = RoundScaled(p.longitude)
            /\ b[21] = B(n)
            /\ SubSeq(b, 22, 21 + n) = p.name
            /\ SubSeq(b, 22 + n, 37 + n) = SubSeq(b, Len(b) - 15, Len(b))

\* the tag serialize appends for the key: the truncated digest of the field
\* bytes, or sixteen zero bytes
TagFor(key, fields) ==
    IF key = NoKey THEN [i \in 1..16 |-> B(0)]
    ELSE [i \in 1..16 |-> <<key, fields, i>>]

\* C5 amended: a serialized Position has header at offset 0, interval 1,
\* confidence 2, satellites 3, device 4-9, latitude 10-13 and longitude 14-17
\* (signed big endian), name length 18, name 19, the tag at 19 + n, 35 + n
\* bytes in all and no timestamp; Position decode reads the same offsets.
C5_CodeWireTable ==
    /\ (sent.status = "ok" /\ sent.before.kind = "Position") =>
         LET p == sent.before
             b == sent.bytes
             n == Len(p.name)
             lat == RoundScaled(p.latitude)
             lon == RoundScaled(p.longitude)
         IN  /\ Len(b) = 35 + n
             /\ b[1] = B(p.header)
             /\ b[2] = B(p.interval)
             /\ b[3] = B(p.confidence)
             /\ b[4] = B(p.satellites)
             /\ \A i \in 1..6 : b[4 + i] = B(p.device[i])
             /\ \A i \in 0..3 :
                  /\ b[11 + i] = B((lat \div (256 ^ (3 - i))) % 256)
                  /\ b[15 + i] = B((lon \div (256 ^ (3 - i))) % 256)
             /\ b[19] = B(n)
             /\ SubSeq(b, 20, 19 + n) = p.name
             /\ SubSeq(b, 20 + n, 35 + n) = TagFor(sent.key, SubSeq(b, 1, 19 + n))
    /\ (PositionDecoded /\ decoded.status = "ok") =>
         LET o == decoded.obj
             d == decoded.data
             n == Val(d[19])
         IN  /\ Len(d) = 35 + n
             /\ o.header = Val(d[1])
             /\ o.interval = Val(d[2])
             /\ o.confidence = Val(d[3])
             /\ o.satellites = Val(d[4])
             /\ \A i \in 1..6 : o.device[i] = Val(d[4 + i])
             /\ \A i \in 0..3 :
                  /\ B((o.latitude.units \div (256 ^ (3 - i))) % 256) = d[11 + i]
                  /\ B((o.longitude.units \div (256 ^ (3 - i))) % 256) = d[15 + i]
             /\ o.latitude.frac = 0 /\ o.longitude.frac = 0
             /\ o.name = SubSeq(d, 20, 19 + n)
             /\ o.hmac_ = SubSeq(d, 20 + n, 35 + n)

\* C5 witness: a Position with a name and negative latitude was serialized
\* with a key and decoded from the buffer serialize returned
C5_Witness ==
    /\ PositionDecoded
    /\ decoded.status = "ok"
    /\ Undisturbed
    /\ sent.key # NoKey
    /\ Len(sent.before.name) > 0
    /\ sent.before.latitude.units < 0

\* C6 as the spec states it: no Position buffer shorter than
\* 1 + 1 + 6 + 4 + 4 + 4 + 1 + 16 = 37 bytes decodes; each fails before the
\* name length is read.
C6_SpecMinimum ==
    (PositionDecoded /\ Len(decoded.data) < 1 + 1 + 6 + 4 + 4 + 4 + 1 + 16) =>
        /\ decoded.status = "error"
        /\ 18 \notin decoded.reads

\* C6 amended: a Position buffer shorter than 1 + 1 + 1 + 1 + 6 + 4 + 4 + 1 + 16
\* = 35 bytes (header, interval, confidence, satellites, device, latitude,
\* longitude, name length, tag) fails to decode with an error before any byte,
\* the name length included, is read; none decodes into a Position.
C6_CodeMinimum ==
    (PositionDecoded /\ Len(decoded.data) < 1 + 1 + 1 + 1 + 6 + 4 + 4 + 1 + 16) =>
        /\ decoded.status = "error"
        /\ decoded.what = "data too short for Position"
        /\ decoded.obj = NoObject
        /\ decoded.reads = {}

\* C6 witness: a Position buffer of 27 to 34 bytes was refused
C6_Witness ==
    /\ PositionDecoded
    /\ decoded.status = "error"
    /\ Len(decoded.data) >= 27
    /\ Len(decoded.data) < 35

\* C7: Command decode fails with an error for every buffer shorter than 18
\* bytes, and reads no byte of it.
C7_CommandMinimum ==
    (CommandDecoded /\ Len(decoded.data) < 18) =>
        /\ decoded.status = "error"
        /\ decoded.obj = NoObject
        /\ decoded.reads = {}

\* C7 witness: a Command buffer of 2 to 17 bytes was refused
C7_Witness ==
    /\ CommandDecoded
    /\ decoded.status = "error"
    /\ Len(decoded.data) >= 2
    /\ Len(decoded.data) < 18

\* the degrees are a multiple of 1e-7 and round(degrees * 1e7) is an int32
ExactDegrees(d) ==
    /\ d.frac = 0
    /\ d.units >= -2147483647 - 1
    /\ d.units <= 2147483647

\* C8: for a Position with a name of at most 255 bytes and latitude/longitude
\* exact multiples of 1e-7 in int32 range, and a non-null key, decoding the
\* bytes serialize(key) returned succeeds, yields identical field values, and
\* verify(key) on the decoded Position returns true.
C8_PositionRoundTrip ==
    (/\ PositionDecoded
     /\ Undisturbed
     /\ sent.key # NoKey
     /\ Len(sent.before.name) <= 255
     /\ ExactDegrees(sent.before.latitude)
     /\ ExactDegrees(sent.before.longitude))
    => /\ decoded.status = "ok"
       /\ FieldsOf(decoded.obj) = FieldsOf(sent.before)
       /\ Verify(decoded.obj, sent.key) = Ok(TRUE)
       /\ (verified.status # "none" /\ verified.key = sent.key)
            => (verified.status = "ok" /\ verified.result)

\* C8 witness: the Position at the ends of the int32 range made the round
\* trip and verify(key) was called on the decoded object
C8_Witness ==
    /\ PositionDecoded
    /\ Undisturbed
    /\ sent.key # NoKey
    /\ sent.before.latitude = Deg(-2147483647 - 1, 0)
    /\ sent.before.longitude = Deg(2147483647, 0)
    /\ verified.status = "ok"
    /\ verified.key = sent.key

\* C9: for a Command with any header byte and an arg of at most 255 bytes,
\* and a non-null key, decoding the bytes serialize(key) returned yields a
\* Command with the same raw header byte (so the same action nibble, also the
\* one setHeader wrote), the same arg, and verify(key) on it returns true.
C9_CommandRoundTrip ==
    (/\ CommandDecoded
     /\ Undisturbed
     /\ sent.key # NoKey
     /\ Len(sent.before.arg) <= 255)
    => /\ decoded.status = "ok"
       /\ ~decoded.oob
       /\ decoded.obj.header = sent.before.header
       /\ CommandGetHeader(decoded.obj) = CommandGetHeader(sent.before)
       /\ \A action \in CommandActions :
            sent.before.header = CommandSetHeader(sent.before, action).header
              => CommandGetHeader(decoded.obj) = action
       /\ decoded.obj.arg = sent.before.arg
       /\ Verify(decoded.obj, sent.key) = Ok(TRUE)
       /\ (verified.status # "none" /\ verified.key = sent.key)
            => (verified.status = "ok" /\ verified.result)

\* C9 witness: a Command with a header without the marker bit and a three
\* byte arg made the round trip and verify(key) was called on it
C9_Witness ==
    /\ CommandDecoded
    /\ Undisturbed
    /\ sent.key # NoKey
    /\ sent.before.header = 79
    /\ Len(sent.before.arg) = 3
    /\ verified.status = "ok"
    /\ verified.key = sent.key

\* the buffer decoded keeps the length and the 16 tag bytes of the buffer
\* serialize returned and differs from it in a field byte
FieldTampered ==
    /\ sent.status = "ok"
    /\ sent.key # NoKey
    /\ decoded.status # "none"
    /\ Len(decoded.data) = Len(sent.bytes)
    /\ \A i \in (Len(sent.bytes) - 15)..Len(sent.bytes) :
         decoded.data[i] = sent.bytes[i]
    /\ \E i \in 1..(Len(sent.bytes) - 16) : decoded.data[i] # sent.bytes[i]

\* C10: with a collision-free digest, a buffer that differs from the bytes
\* serialized with key k in a field byte and keeps their 16 tag bytes never
\* decodes into an object that verify(k) accepts: decode fails or verify
\* returns false.
C10_TamperDetected ==
    FieldTampered =>
        /\ decoded.status = "ok" => Verify(decoded.obj, sent.key) = Ok(FALSE)
        /\ (verified.status # "none" /\ verified.key = sent.key)
             => (verified.status = "ok" /\ ~verified.result)

\* C10 witness: a Command buffer whose arg length byte was lowered decoded
\* and verify(k) was called on it
C10_Witness ==
    /\ FieldTampered
    /\ payload.kind = "Command"
    /\ Val(decoded.data[2]) < Val(sent.bytes[2])
    /\ decoded.status = "ok"
    /\ verified.status = "ok"
    /\ verified.key = sent.key

Tail16(bytes) == SubSeq(bytes, Len(bytes) - 15, Len(bytes))

\* C12: serialize with a key returns the canonical field bytes followed by the
\* first 16 bytes of HMAC(key, field bytes); right after the call the stored
\* tag of the object equals those 16 bytes, so verify(key) on the same object
\* returns true.
C12_SignedBuffer ==
    (sent.status = "ok" /\ sent.key # NoKey) =>
        /\ sent.bytes = sent.fields \o TagFor(sent.key, sent.fields)
        /\ sent.after.hmac_ = Tail16(sent.bytes)
        /\ FieldsOf(sent.after) = FieldsOf(sent.before)
        /\ Verify(sent.after, sent.key) = Ok(TRUE)
        /\ (payload = sent.after) => Verify(payload, sent.key) = Ok(TRUE)

\* C12 witness: a Position with a name was serialized with the configured
\* secret while its stored tag was still all zero, and is unchanged since
C12_Witness ==
    /\ sent.status = "ok"
    /\ sent.key = WT_CFG_SECRET
    /\ sent.before.kind = "Position"
    /\ sent.before.hmac_ = ZeroTag
    /\ Len(sent.before.name) > 0
    /\ payload = sent.after

C14_VerifyReadOnly == [][VerifyCall => UNCHANGED <<decoded, payload>>]_vars

\* C14 witness: verify was called on a decoded object whose stored tag is not
\* the tag of the secret passed
C14_Witness ==
    /\ decoded.status = "ok"
    /\ verified.status = "ok"
    /\ ~verified.result
    /\ decoded.obj.hmac_ # TagFor(verified.key, SerializeFields(decoded.obj).value)
    /\ decoded.obj.hmac_ # ZeroTag
    /\ payload.kind = "Position"

\* the name of a Position, the arg of a Command
VarField(o) == IF o.kind = "Position" THEN o.name ELSE o.arg

\* C15: serialize of a Position whose name, or a Command whose arg, is longer
\* than 255 bytes fails with an error, with a key and without: no bytes are
\* returned and the stored tag of the object is as before.
C15_TooLongFails ==
    (sent.status # "none" /\ Len(VarField(sent.before)) > 255) =>
        /\ sent.status = "error"
        /\ sent.bytes = <<>>
        /\ sent.after = sent.before

\* C15 witness: a Position that had been signed got a name of 256 bytes and
\* was serialized again with a key
C15_Witness ==
    /\ sent.status = "error"
    /\ sent.key # NoKey
    /\ sent.before.kind = "Position"
    /\ Len(sent.before.name) = 256
    /\ sent.before.hmac_ # ZeroTag

\* the tags an object may carry into a serialize call: none yet, or the tag
\* of an earlier call with some secret over some field bytes
StoredTags(fields) ==
    {ZeroTag} \cup {TagFor(k, fields) : k \in Keys}
              \cup {TagFor(k, <<B(0)>>) : k \in Keys}

\* C16: the bytes serialize returns do not depend on the stored tag: every
\* object with the same field values, whatever its stored tag, gives the same
\* bytes and the same 16 byte tag under the same key; and a second serialize
\* call on the same fields with the same key returns the bytes of the first.
C16_TagNeverSigned ==
    /\ [](sent.status = "ok" =>
            \A t \in StoredTags(sent.fields) :
              LET r == Serialize([sent.before EXCEPT !.hmac_ = t], sent.key)
              IN  /\ r.status = "ok"
                  /\ r.bytes = sent.bytes
                  /\ Tail16(r.bytes) = Tail16(sent.bytes))
    /\ [][(/\ SerializeCall
           /\ sent.status = "ok"
           /\ sent'.status = "ok"
           /\ sent'.key = sent.key
           /\ FieldsOf(sent'.before) = FieldsOf(sent.before))
          => sent'.bytes = sent.bytes]_vars

\* C16 witness: an object that already carried the tag of a signed call was
\* serialized a second time with the same secret
C16_Witness ==
    /\ sent.calls = 2
    /\ sent.status = "ok"
    /\ sent.key = WT_CFG_SECRET
    /\ sent.before.hmac_ = TagFor(WT_CFG_SECRET, sent.fields)

\* C17: for a Position or Command with a name or arg of at most 255 bytes,
\* the canonical field bytes of the object decoded from serialize(p, key) are
\* the canonical field bytes of p, latitude and longitude being the int32 of
\* the first rounding; with a key or without.
C17_EncodeIdempotent ==
    (/\ Undisturbed
     /\ decoded.status # "none"
     /\ Len(VarField(sent.before)) <= 255)
    => /\ decoded.status = "ok"
       /\ SerializeFields(sent.before).status = "ok"
       /\ SerializeFields(decoded.obj) = SerializeFields(sent.before)
       /\ sent.before.kind = "Position" =>
            /\ decoded.obj.latitude = Unscaled(RoundScaled(sent.before.latitude))
            /\ decoded.obj.longitude = Unscaled(RoundScaled(sent.before.longitude))
            /\ RoundScaled(decoded.obj.latitude) = RoundScaled(sent.before.latitude)
            /\ RoundScaled(decoded.obj.longitude) = RoundScaled(sent.before.longitude)

\* C17 witness: a Position whose latitude is no multiple of 1e-7 was
\* serialized with a key and decoded from the bytes returned
C17_Witness ==
    /\ Undisturbed
    /\ decoded.status = "ok"
    /\ sent.key # NoKey
    /\ sent.before.kind = "Position"
    /\ sent.before.latitude.frac # 0
    /\ decoded.obj.latitude # sent.before.latitude

\* the format marker 0x80 of a header byte
HighBit(header) == (header \div 128) % 2 = 1

\* C18: the header byte of every Position and Command, default constructed,
\* after setHeader, or decoded from any buffer, has the high bit 0x80 set.
C18_HeaderMarker ==
    /\ HighBit(payload.header)
    /\ decoded.status = "ok" => HighBit(decoded.obj.header)

\* what a waitForNetwork call does short of returning: at most 31 polls of
\* the registration state with a one second wait after each; true on the
\* poll that finds the modem registered, false after the wait in which the
\* timeout counter was found at 30
C19_Bounded ==
    /\ obs.polls <= 31
    /\ obs.waits <= 31
    /\ obs.wfn = "running" => obs.waits \in {obs.polls - 1, obs.polls}
    /\ obs.wfn = "true" => (obs.registered /\ obs.waits = obs.polls - 1)
    /\ obs.wfn = "false" => (~obs.registered /\ obs.polls = 31 /\ obs.waits = 31)

\* C19: waitForNetwork always returns: true as soon as the modem is seen
\* registered, false once the timeout counter has reached 30, after at most
\* 31 one second polls.
C19_WaitForNetworkReturns ==
    /\ []C19_Bounded
    /\ (obs.wfn = "running") ~> (obs.wfn # "running")

\* C20: attemptGnssFix returns true only if a fix event was delivered during
\* the call, after its latest fix request, and the estimatedConfidence of
\* that fix is at most 200; what an earlier call left in latestGnssFix and
\* gnssFixRcvd does not make it return true.
C20_FixFromThisRequest ==
    (pc = "done" /\ obs.fn = "attemptGnssFix" /\ ret) =>
        /\ obs.requests >= 1
        /\ obs.fixSinceRequest
        /\ obs.lastEvent \in FixSamples
        /\ obs.lastEvent.estimatedConfidence <= 200
        /\ gnss.latestGnssFix = obs.lastEvent
        /\ gnss.gnssFixRcvd

\* C20 witness: in the second call of the run attemptGnssFix returned true
\* on its second fix request, the first having brought a fix that was not
\* good enough
C20_Witness ==
    /\ pc = "done"
    /\ obs.fn = "attemptGnssFix"
    /\ ret
    /\ obs.calls = 2
    /\ obs.requests = 2
    /\ obs.fixSinceRequest

\* C21: waitForInitialGnssFix returns true only if the fix it accepted has at
\* least one counted satellite (signal strength >= 30) and an
\* estimatedConfidence of at most 200.
C21_InitialFixHasSatellites ==
    (pc = "done" /\ obs.fn = "waitForInitialGnssFix" /\ ret) =>
        /\ gnss.gnssFixNumSatellites >= 1
        /\ gnss.latestGnssFix.estimatedConfidence <= 200

\* min(numAttempts, MAX_GNSS_FIX_ATTEMPTS)
AttemptsDue == IF obs.numAttempts > 3 THEN 3 ELSE obs.numAttempts

\* C22: attemptGnssFix issues at most min(numAttempts, 3) fix requests and
\* stops early only on an acceptable fix: when it returns false and no modem
\* request has failed, also after an attempt that timed out and was
\* cancelled, it has issued exactly min(numAttempts, 3) fix requests.
C22_AllAttemptsRun ==
    obs.fn = "attemptGnssFix" =>
        /\ obs.requests <= AttemptsDue
        /\ (pc = "done" /\ ~ret /\ ~obs.aborted) => obs.requests = AttemptsDue

\* validateGNSSClock has just returned to its caller
ClockReturned == pc \in {"ag_clock", "wi_clock"}

\* C23: validateGNSSClock returns true exactly when some UTC time query
\* reported an epochTime above 4; after an invalid first query it calls
\* lteConnect only when isLteConnected said no, returns false without another
\* query when lteConnect fails, and else makes at most 5 further queries
\* before it returns false.
C23_ClockValidation ==
    /\ obs.clock.queries <= 6
    /\ obs.clock.lteConnect # "none" =>
         (obs.clock.registered = "no" /\ obs.clock.queries >= 1)
    /\ obs.clock.registered = "yes" => obs.clock.lteConnect = "none"
    /\ obs.clock.registered # "unknown" => obs.clock.queries >= 1
    /\ ClockReturned =>
         /\ ret <=> obs.clock.maxEpoch > 4
         /\ obs.clock.lteConnect = "false" => (~ret /\ obs.clock.queries = 1)
         /\ (~ret /\ obs.clock.lteConnect # "false") => obs.clock.queries = 6
         /\ obs.clock.queries = 1 =>
              (ret \/ obs.clock.lteConnect = "false")

\* C23 witness: the first query was invalid, the modem was not registered,
\* lteConnect succeeded, and the fifth of the further queries reported a
\* valid time
C23_Witness ==
    /\ ClockReturned
    /\ ret
    /\ obs.clock.lteConnect = "true"
    /\ obs.clock.queries = 6

\* updateGNSSAssistance has just returned to its caller
AssistReturned == pc \in {"ag_assist", "wi_assist"}

\* C24: updateGNSSAssistance calls lteConnect only if the almanac or the
\* real-time ephemeris needs an update and the modem is not registered; with
\* both data sets up to date it returns true with no LTE connection attempt
\* and no download, and when the status query fails it returns false with
\* neither.
C24_ConnectOnlyWhenNeeded ==
    /\ obs.assist.lteConnect # "none" =>
         (obs.assist.status = "stale" /\ obs.assist.registered = "no")
    /\ obs.assist.downloads > 0 => obs.assist.status = "stale"
    /\ obs.assist.registered # "unknown" => obs.assist.status = "stale"
    /\ AssistReturned =>
         /\ obs.assist.status \in {"failed", "fresh", "stale"}
         /\ obs.assist.status = "fresh" =>
              (ret /\ obs.assist.lteConnect = "none" /\ obs.assist.downloads = 0)
         /\ obs.assist.status = "failed" =>
              (~ret /\ obs.assist.lteConnect = "none" /\ obs.assist.downloads = 0)
         /\ obs.assist.lteConnect = "false" => (~ret /\ obs.assist.downloads = 0)

\* C24 witness: the data was stale, the modem not registered, lteConnect
\* succeeded and both data sets were requested
C24_Witness ==
    /\ AssistReturned
    /\ obs.assist.status = "stale"
    /\ obs.assist.lteConnect = "true"
    /\ obs.assist.downloads = 2
    /\ ret

\* the data was up to date and updateGNSSAssistance returned at once
C24_FreshReached ==
    AssistReturned /\ obs.assist.status = "fresh" /\ ret

\* a function with the fix loop is running or has just returned
InFixFunction == obs.fn \in {"attemptGnssFix", "waitForInitialGnssFix"}

\* C25: in waitForInitialGnssFix and attemptGnssFix no fix request is issued
\* unless lteDisconnect returned true earlier in the same call, having read
\* NOT_SEARCHING last; if lteDisconnect returns false the function returns
\* false and no fix request was issued.
C25_RequestOnlyAfterDisconnect ==
    InFixFunction =>
        /\ (pc \in {"ag_request", "wi_request"} \/ obs.requests >= 1 \/ fixPending)
              => obs.disconnect = [returned |-> "true",
                                   regState |-> "NOT_SEARCHING"]
        /\ (pc \in {"ag_disc", "wi_disc"} /\ ~ret)
              => (obs.disconnect.returned = "false" /\ obs.requests = 0)
        /\ (pc = "done" /\ obs.disconnect.returned = "false")
              => (~ret /\ obs.requests = 0)

\* C25 witness: a fix request is about to be issued after lteDisconnect
\* returned true
C25_Witness ==
    /\ InFixFunction
    /\ pc \in {"ag_request", "wi_request"}
    /\ obs.disconnect.returned = "true"

\* the function returned false because lteDisconnect did
C25_RefusedReached ==
    InFixFunction /\ pc = "done" /\ obs.disconnect.returned = "false" /\ ~ret

\* the places of the two loops that wait for a fix
FixWaitPcs ==
    {"ag_wait", "ag_delay", "ag_cancel", "wi_wait", "wi_delay", "wi_restart"}

InFixWait == pc \in FixWaitPcs

\* the one second waits made since the latest fix request stay within the
\* limit of the function, and the last one allowed leads to the cancel or to
\* the restart unless a fix has arrived
C26_Bounded ==
    /\ obs.fn = "attemptGnssFix" =>
         /\ obs.fixWaits <= MAX_GNSS_FIX_DURATION_SECONDS + 1
         /\ pc = "ag_cancel" => obs.fixWaits >= 1
         /\ (InFixWait /\ ~gnss.gnssFixRcvd
                       /\ obs.fixWaits = MAX_GNSS_FIX_DURATION_SECONDS + 1)
              => pc = "ag_cancel"
    /\ obs.fn = "waitForInitialGnssFix" =>
         /\ obs.fixWaits <= INITIAL_FIX_RESTART_SECONDS + 1
         /\ pc = "wi_restart" => obs.fixWaits >= 1
         /\ (InFixWait /\ ~gnss.gnssFixRcvd
                       /\ obs.fixWaits = INITIAL_FIX_RESTART_SECONDS + 1)
              => pc = "wi_restart"

\* a step that leaves a wait loop: a fix was received, or the cancel
\* succeeded, or the ESP restarts
C26_Exit ==
    (InFixWait /\ pc' \notin FixWaitPcs) =>
        \/ gnss'.gnssFixRcvd /\ pc \in {"ag_wait", "wi_wait"}
        \/ pc = "ag_cancel" /\ pc' = "ag_check"
                            /\ gnss'.gnssFixDurationSeconds = 0 /\ ~fixPending'
        \/ pc \in {"ag_cancel", "wi_restart"} /\ pc' = "idle" /\ gnss' = GnssInit

\* C26: a GNSS wait never runs unbounded. In attemptGnssFix the cancel is
\* issued after at most MAX_GNSS_FIX_DURATION_SECONDS + 1 (61) one second
\* waits since the request, and the wait loop ends with a received fix, a
\* successful cancel, or an ESP restart when the cancel fails; in
\* waitForInitialGnssFix the wait ends with a received fix or an ESP restart
\* after at most 301 one second waits.
C26_WaitEnds ==
    /\ []C26_Bounded
    /\ [][C26_Exit]_vars
    /\ (InFixWait ~> ~InFixWait)

\* C26 witness: no fix has arrived and the 61st wait since the request has
\* led to the cancel
C26_Witness ==
    /\ pc = "ag_cancel"
    /\ ~gnss.gnssFixRcvd
    /\ obs.fixWaits = MAX_GNSS_FIX_DURATION_SECONDS + 1

\* the initial fix was given up after the 301st wait
C26_RestartReached ==
    pc = "wi_restart" /\ obs.fixWaits = INITIAL_FIX_RESTART_SECONDS + 1

\* serialize without a key applied to the object decoded from the datagram
UnkeyedOfDecoded == Serialize(decoded.obj, NoKey)

\* C27: serialize without a key leaves the stored tag as it is: after any
\* sequence of serialize calls on one object the stored tag is the tag of the
\* most recent call with a key, or the initial or decoded tag when there was
\* none, also when the buffer returned last ends in sixteen zero bytes.
C27_UnkeyedKeepsTag ==
    /\ payload.hmac_ = sent.tag
    /\ (sent.status = "ok" /\ sent.key = NoKey) =>
         /\ Tail16(sent.bytes) = ZeroTag
         /\ sent.after.hmac_ = sent.before.hmac_
    /\ (decoded.status = "ok" /\ UnkeyedOfDecoded.status = "ok") =>
         /\ UnkeyedOfDecoded.obj.hmac_ = decoded.obj.hmac_
         /\ Tail16(UnkeyedOfDecoded.bytes) = ZeroTag

\* C27 witness: a call with a key was followed by a call without one; the
\* buffer ends in zero bytes and the stored tag is still the computed one
C27_Witness ==
    /\ sent.calls = 2
    /\ sent.status = "ok"
    /\ sent.key = NoKey
    /\ Tail16(sent.bytes) = ZeroTag
    /\ payload.hmac_ # ZeroTag
    /\ payload.hmac_ = sent.tag

\* an object decoded from a datagram with a tag that is not all zero
C27_DecodedTagReached ==
    /\ decoded.status = "ok"
    /\ UnkeyedOfDecoded.status = "ok"
    /\ decoded.obj.hmac_ # ZeroTag

====
